---------------------------- MODULE Spec2Model ----------------------------
(***************************************************************************)
(* Model of src/text_extraction.py: the function process(input_data), an   *)
(* adapter that forwards a document to the remote document-analysis        *)
(* service, flattens the service's result and maps every failure to a      *)
(* result object.                                                          *)
(*                                                                         *)
(* Python values are modelled with their dynamic type: None is PyNone, a   *)
(* string that may also be None is PyStr(s).  A dict is a function whose   *)
(* DOMAIN is the dict's key set.  An exception is [type, args], and str(e) *)
(* is computed from args as BaseException.__str__ does.                    *)
(*                                                                         *)
(* Each invocation i of process is a process of the model with its own     *)
(* locals (input_data, client, poller, result) and program counter; the    *)
(* remote service is the shared log `jobs`.  An invocation is cut into     *)
(* steps at the points where it calls out of the function: the remote      *)
(* submission (lines 38/44) and the blocking poller.result() (line 51).    *)
(***************************************************************************)
EXTENDS Integers, Sequences, FiniteSets, TLC

\* ------------------------------------------------------------ bounds
NumInv    == 2      \* invocations of process that may run concurrently
MaxPages  == 2      \* pages of a service result
MaxLines  == 2      \* lines of a page
MaxTables == 2      \* tables of a service result
MaxCells  == 2      \* cells of a table

Invs == 1..NumInv

\* ------------------------------------------------------------ Python values
PyNone == [type |-> "NoneType"]
PyStr(s) == [type |-> "str", val |-> s]
PyList(xs) == [type |-> "list", items |-> xs]

\* mutant: only None is falsy, the empty string counts as configured
TruthyNotNone(v) == v # PyNone

\* bool(v) of a configuration value: None and "" are falsy
Truthy(v) == v # PyNone /\ v # PyStr("")

\* an exception object: its class and the args it was constructed with
Exc(t, a) == [type |-> t, args |-> a]

\* mutant: repr(e) in place of str(e)
ExcRepr(e) == e.type \o "(" \o (IF Len(e.args) = 0 THEN "" ELSE e.args[1]) \o ")"

\* str(e): "" without args, str(args[0]) with one
ExcStr(e) == IF Len(e.args) = 0 THEN "" ELSE e.args[1]

CredentialsError ==
    Exc("ValueError", <<"Azure Form Recognizer credentials not configured">>)

\* mutant: the ValueError raised without a message
NoInputErrorBare == Exc("ValueError", <<>>)

NoInputError ==
    Exc("ValueError", <<"Either 'file_bytes' or 'file_url' must be provided">>)

NotIterableError ==
    Exc("TypeError", <<"'NoneType' object is not iterable">>)

\* ------------------------------------------------------------ configuration
Endpoints == {PyNone, PyStr(""), PyStr("https://di.example/")}
Keys == {PyNone, PyStr(""), PyStr("k3y")}
DeployedModel == "prebuilt-document"
ModelIds == {DeployedModel, "prebuilt-layout"}

Settings ==
    [AZURE_FORMRECOGNIZER_ENDPOINT : Endpoints,
     AZURE_FORMRECOGNIZER_KEY : Keys,
     PREBUILT_MODEL : ModelIds]

\* ------------------------------------------------------------ requests
PayloadOf(k) ==
    CASE k = "file_bytes" -> "%PDF-1.7"
      [] k = "file_url" -> "https://host/doc.pdf"
      [] OTHER -> "/tmp/doc.pdf"

\* the request dicts over a set of keys
RequestsOver(ks) == {[k \in D |-> PayloadOf(k)] : D \in SUBSET ks}

DispatchKeys == {"file_bytes", "file_url"}
DocstringKeys == {"file_path", "file_url", "file_bytes"}

\* ------------------------------------------------------------ service results
RECURSIVE SeqsUpTo(_, _)
SeqsUpTo(S, n) ==
    IF n = 0 THEN {<<>>}
    ELSE LET shorter == SeqsUpTo(S, n - 1)
         IN  shorter \cup {Append(s, x) : s \in {t \in shorter : Len(t) = n - 1}, x \in S}

Line(c) == [content |-> c]
Cell(r, c, t) == [row_index |-> r, column_index |-> c, content |-> t]
Page(ls) == [lines |-> ls]
Table(cs) == [cells |-> cs]
AnalyzeResult(ps, ts) == [pages |-> ps, tables |-> ts]

LineSet == {Line("Hello"), Line(" x ")}
CellSet == {Cell(0, 0, "A"), Cell(1, 0, "C")}

ExamplePages ==
    <<Page(<<Line("Hello"), Line("World")>>), Page(<<Line("Foo")>>)>>

ExampleTables ==
    <<Table(<<Cell(0, 0, "A"), Cell(0, 1, "B"), Cell(1, 0, "C")>>)>>

\* a few results: the empty document, the documented example, and a result
\* of an unexpected shape (its tables missing)
SampleResults ==
    {AnalyzeResult(PyList(<<>>), PyList(<<>>)),
     AnalyzeResult(PyList(ExamplePages), PyList(ExampleTables)),
     AnalyzeResult(PyList(<<Page(<<Line("Foo")>>)>>), PyNone)}

PageSeqs == SeqsUpTo({Page(ls) : ls \in SeqsUpTo(LineSet, MaxLines)}, MaxPages)
TableSeqs == SeqsUpTo({Table(cs) : cs \in SeqsUpTo(CellSet, MaxCells)}, MaxTables)

\* every page structure with the example's tables, every table structure
\* with the example's pages
RichResults ==
    SampleResults
    \cup {AnalyzeResult(PyNone, PyList(<<>>))}
    \cup {AnalyzeResult(PyList(ps), PyList(ExampleTables)) : ps \in PageSeqs}
    \cup {AnalyzeResult(PyList(ExamplePages), PyList(ts)) : ts \in TableSeqs}

ServiceErrors ==
    {Exc("HttpResponseError", <<"(401) Access denied">>),
     Exc("ServiceRequestError", <<"connection timed out">>)}

\* ------------------------------------------------------------ state
VARIABLES
    settings,     \* the process configuration (from .config)
    pc,           \* pc[i]: where invocation i is
    input_data,   \* input_data[i]: the request dict of invocation i
    client,       \* client[i]: the DocumentAnalysisClient of invocation i
    poller,       \* poller[i]: the job handle of invocation i (index in jobs, 0 none)
    result,       \* result[i]: what poller.result() returned to invocation i
    ret,          \* ret[i]: the dict process returned
    jobs          \* the remote service: every operation submitted, in order

vars == <<settings, pc, input_data, client, poller, result, ret, jobs>>

NotReturned == [pending |-> TRUE]

InitWith(configs) ==
    /\ settings \in configs
    /\ pc = [i \in Invs |-> "idle"]
    /\ input_data = [i \in Invs |-> PyNone]
    /\ client = [i \in Invs |-> PyNone]
    /\ poller = [i \in Invs |-> 0]
    /\ result = [i \in Invs |-> PyNone]
    /\ ret = [i \in Invs |-> NotReturned]
    /\ jobs = <<>>

\* every credentials configuration, the deployed model
Init == InitWith({s \in Settings : s.PREBUILT_MODEL = DeployedModel})

\* every credentials configuration, every model identifier
SoloInit == InitWith(Settings)

\* ------------------------------------------------------------ flattening
Digit(d) ==
    CASE d = 0 -> "0" [] d = 1 -> "1" [] d = 2 -> "2" [] d = 3 -> "3"
      [] d = 4 -> "4" [] d = 5 -> "5" [] d = 6 -> "6" [] d = 7 -> "7"
      [] d = 8 -> "8" [] d = 9 -> "9"

\* f"{page_num}": the decimal digits of a positive integer
RECURSIVE IntToStr(_)
IntToStr(n) == IF n < 10 THEN Digit(n) ELSE IntToStr(n \div 10) \o Digit(n % 10)

\* f"page number {page_num}\n"
PageMarker(page_num) == "page number " \o IntToStr(page_num) \o "\n"

\* mutant: `=` in place of `+=` in the inner loop
RECURSIVE LinesLoopAssign(_, _, _)
LinesLoopAssign(extracted_text, lines, j) ==
    IF j > Len(lines) THEN extracted_text
    ELSE LinesLoopAssign(lines[j].content \o "\n", lines, j + 1)

\* the inner loop: for line in page.lines: extracted_text += line.content + "\n"
RECURSIVE LinesLoop(_, _, _)
LinesLoop(extracted_text, lines, j) ==
    IF j > Len(lines) THEN extracted_text
    ELSE LinesLoop(extracted_text \o lines[j].content \o "\n", lines, j + 1)

\* the first value of enumerate(result.pages, start=1)
EnumerateStart == 1

\* the outer loop: for page_num, page in enumerate(result.pages, start=1)
RECURSIVE PagesLoop(_, _, _)
PagesLoop(extracted_text, pages, idx) ==
    IF idx > Len(pages) THEN extracted_text
    ELSE PagesLoop(
            LinesLoop(extracted_text \o PageMarker(EnumerateStart + idx - 1),
                      pages[idx].lines, 1),
            pages, idx + 1)

ExtractText(pages) == PagesLoop("", pages, 1)

\* mutant: row and column exchanged
CellRecordSwapped(cell) ==
    [row |-> cell.column_index, column |-> cell.row_index, content |-> cell.content]

CellRecord(cell) ==
    [row |-> cell.row_index, column |-> cell.column_index, content |-> cell.content]

\* for cell in table.cells: table_data.append({...})
RECURSIVE CellsLoop(_, _, _)
CellsLoop(table_data, cells, j) ==
    IF j > Len(cells) THEN table_data
    ELSE CellsLoop(Append(table_data, CellRecord(cells[j])), cells, j + 1)

\* for table in result.tables: ...; tables.append(table_data)
RECURSIVE TablesLoop(_, _, _)
TablesLoop(tables, result_tables, idx) ==
    IF idx > Len(result_tables) THEN tables
    ELSE TablesLoop(Append(tables, CellsLoop(<<>>, result_tables[idx].cells, 1)),
                    result_tables, idx + 1)

ExtractTables(result_tables) == TablesLoop(<<>>, result_tables, 1)

\* the dict of the return statement
SuccessReturn(extracted_text, res, tables, model) ==
    [result |-> PyStr(extracted_text),
     metadata |-> [pages |-> Len(res.pages.items),
                   tables |-> Len(tables),
                   tables_data |-> tables,
                   model |-> model]]

\* except Exception as e: return {"error": str(e), "result": None}
ExceptReturn(e) == [error |-> PyStr(ExcStr(e)), result |-> PyNone]

\* ------------------------------------------------------------ process
\* return d (from the try body or from the except clause)
Return(i, d) ==
    /\ pc' = [pc EXCEPT ![i] = "done"]
    /\ ret' = [ret EXCEPT ![i] = d]

\* the classes the clause `except Exception` catches
ExceptionClasses ==
    {"ValueError", "TypeError", "HttpResponseError", "ServiceRequestError"}

\* mutant: `except ValueError`
CaughtValueErrorOnly(e) == e.type = "ValueError"

Caught(e) == e.type \in ExceptionClasses

\* an exception raised in the try body: the except clause returns the failure
\* dict; an exception it does not catch leaves process
Raise(i, e) ==
    IF Caught(e)
    THEN Return(i, ExceptReturn(e))
    ELSE /\ pc' = [pc EXCEPT ![i] = "raised"]
         /\ UNCHANGED ret

\* mutant: the URL tested first
BranchUrlFirst(d) ==
    IF "file_url" \in DOMAIN d THEN "url"
    ELSE IF "file_bytes" \in DOMAIN d THEN "bytes"
    ELSE "none"

\* the branch of the if / elif / else over the request's keys
Branch(d) ==
    IF "file_bytes" \in DOMAIN d THEN "bytes"
    ELSE IF "file_url" \in DOMAIN d THEN "url"
    ELSE "none"

\* a caller invokes process(req)
Call(i, req) ==
    /\ pc[i] = "idle"
    /\ pc' = [pc EXCEPT ![i] = "start"]
    /\ input_data' = [input_data EXCEPT ![i] = req]
    /\ UNCHANGED <<settings, client, poller, result, ret, jobs>>

\* mutant: the client is constructed without the credentials check
CheckCredentialsSkipped(i) ==
    /\ pc[i] = "start"
    /\ client' = [client EXCEPT ![i] =
                      [endpoint |-> settings.AZURE_FORMRECOGNIZER_ENDPOINT,
                       credential |-> settings.AZURE_FORMRECOGNIZER_KEY]]
    /\ pc' = [pc EXCEPT ![i] = "dispatch"]
    /\ UNCHANGED <<settings, input_data, poller, result, ret, jobs>>

\* the credentials are read and checked, and the client is constructed
CheckCredentials(i) ==
    /\ pc[i] = "start"
    /\ LET endpoint == settings.AZURE_FORMRECOGNIZER_ENDPOINT
           key == settings.AZURE_FORMRECOGNIZER_KEY
       IN  IF ~Truthy(endpoint) \/ ~Truthy(key)
           THEN /\ Raise(i, CredentialsError)
                /\ UNCHANGED client
           ELSE /\ client' = [client EXCEPT ![i] = [endpoint |-> endpoint, credential |-> key]]
                /\ pc' = [pc EXCEPT ![i] = "dispatch"]
                /\ UNCHANGED ret
    /\ UNCHANGED <<settings, input_data, poller, result, jobs>>

\* the service receives an operation: it rejects it with an error (rej is the
\* exception the call raises) or accepts it and starts a job (rej = PyNone)
Job(i, op, model_id, document, rej) ==
    [caller |-> i, op |-> op, model_id |-> model_id, document |-> document,
     status |-> IF rej = PyNone THEN "running" ELSE "rejected",
     outcome |-> rej]

\* client.begin_analyze_document(...) / begin_analyze_document_from_url(...)
Submit(i, op, document, rej) ==
    /\ jobs' = Append(jobs, Job(i, op, settings.PREBUILT_MODEL, document, rej))
    /\ IF rej = PyNone
       THEN /\ poller' = [poller EXCEPT ![i] = Len(jobs) + 1]
            /\ pc' = [pc EXCEPT ![i] = "await"]
            /\ UNCHANGED ret
       ELSE /\ Raise(i, rej)
            /\ UNCHANGED poller

\* if 'file_bytes' in input_data
DispatchBytes(i, rej) ==
    /\ pc[i] = "dispatch"
    /\ Branch(input_data[i]) = "bytes"
    /\ Submit(i, "begin_analyze_document", input_data[i]["file_bytes"], rej)
    /\ UNCHANGED <<settings, input_data, client, result>>

\* elif 'file_url' in input_data
DispatchUrl(i, rej) ==
    /\ pc[i] = "dispatch"
    /\ Branch(input_data[i]) = "url"
    /\ Submit(i, "begin_analyze_document_from_url", input_data[i]["file_url"], rej)
    /\ UNCHANGED <<settings, input_data, client, result>>

\* else: raise ValueError
DispatchNone(i) ==
    /\ pc[i] = "dispatch"
    /\ Branch(input_data[i]) = "none"
    /\ Raise(i, NoInputError)
    /\ UNCHANGED <<settings, input_data, client, poller, result, jobs>>

\* the remote job j ends, with one of the outcomes: a result (ok) or an error
ServiceCompletes(j, ok, outcomes) ==
    /\ j \in 1..Len(jobs)
    /\ jobs[j].status = "running"
    /\ \E outcome \in outcomes :
          jobs' = [jobs EXCEPT ![j].status = IF ok THEN "succeeded" ELSE "failed",
                               ![j].outcome = outcome]
    /\ UNCHANGED <<settings, pc, input_data, client, poller, result, ret>>

\* mutant: one poller shared by the invocations, holding the latest job
PollerJobLatest(i) == Len(jobs)

\* the job whose outcome poller.result() of invocation i waits for
PollerJob(i) == poller[i]

\* mutant: a failed job is submitted once more
AwaitResultRetry(i) ==
    /\ pc[i] = "await"
    /\ LET job == jobs[poller[i]]
           mine == SelectSeq(jobs, LAMBDA x : x.caller = i)
       IN  /\ job.status \in {"succeeded", "failed"}
           /\ IF job.status = "failed"
              THEN /\ IF Len(mine) < 2
                      THEN pc' = [pc EXCEPT ![i] = "dispatch"] /\ UNCHANGED ret
                      ELSE Raise(i, job.outcome)
                   /\ UNCHANGED result
              ELSE /\ result' = [result EXCEPT ![i] = job.outcome]
                   /\ pc' = [pc EXCEPT ![i] = "flatten"]
                   /\ UNCHANGED ret
    /\ UNCHANGED <<settings, input_data, client, poller, jobs>>

\* result = poller.result(): blocks until the job has ended
AwaitResult(i) ==
    /\ pc[i] = "await"
    /\ LET job == jobs[PollerJob(i)]
       IN  /\ job.status \in {"succeeded", "failed"}
           /\ IF job.status = "failed"
              THEN /\ Raise(i, job.outcome)
                   /\ UNCHANGED result
              ELSE /\ result' = [result EXCEPT ![i] = job.outcome]
                   /\ pc' = [pc EXCEPT ![i] = "flatten"]
                   /\ UNCHANGED ret
    /\ UNCHANGED <<settings, input_data, client, poller, jobs>>

\* the two loops and the return statement; iterating a missing (None)
\* pages or tables raises TypeError
Flatten(i) ==
    /\ pc[i] = "flatten"
    /\ LET res == result[i]
       IN  IF res.pages = PyNone \/ res.tables = PyNone
           THEN Raise(i, NotIterableError)
           ELSE Return(i, SuccessReturn(ExtractText(res.pages.items), res,
                                        ExtractTables(res.tables.items),
                                        settings.PREBUILT_MODEL))
    /\ UNCHANGED <<settings, input_data, client, poller, result, jobs>>

\* ------------------------------------------------------------ specifications
SubmitOutcomes == {PyNone} \cup ServiceErrors

\* concurrent invocations, a few service results
Next ==
    \/ \E i \in Invs, req \in RequestsOver(DispatchKeys) : Call(i, req)
    \/ \E i \in Invs : CheckCredentials(i)
    \/ \E i \in Invs, rej \in SubmitOutcomes : DispatchBytes(i, rej)
    \/ \E i \in Invs, rej \in SubmitOutcomes : DispatchUrl(i, rej)
    \/ \E i \in Invs : DispatchNone(i)
    \/ \E j \in 1..Len(jobs) : ServiceCompletes(j, TRUE, SampleResults)
    \/ \E j \in 1..Len(jobs) : ServiceCompletes(j, FALSE, ServiceErrors)
    \/ \E i \in Invs : AwaitResult(i)
    \/ \E i \in Invs : Flatten(i)

Spec == Init /\ [][Next]_vars

\* one request for each branch of the if / elif / else
BranchRequests == {r \in RequestsOver(DispatchKeys) : Cardinality(DOMAIN r) <= 1}

\* one result that flattens, one that does not, one error
TerminationResults ==
    {AnalyzeResult(PyList(ExamplePages), PyList(ExampleTables)),
     AnalyzeResult(PyList(<<Page(<<Line("Foo")>>)>>), PyNone)}

TerminationErrors == {Exc("ServiceRequestError", <<"connection timed out">>)}

\* the steps of invocation i, and the end of job j
Step(i) ==
    \/ CheckCredentials(i)
    \/ \E rej \in {PyNone} \cup TerminationErrors : DispatchBytes(i, rej)
    \/ \E rej \in {PyNone} \cup TerminationErrors : DispatchUrl(i, rej)
    \/ DispatchNone(i)
    \/ AwaitResult(i)
    \/ Flatten(i)

Completes(j) ==
    \/ ServiceCompletes(j, TRUE, TerminationResults)
    \/ ServiceCompletes(j, FALSE, TerminationErrors)

FairNext ==
    \/ \E i \in Invs, req \in BranchRequests : Call(i, req)
    \/ \E i \in Invs : Step(i)
    \/ \E j \in 1..Len(jobs) : Completes(j)

\* an invocation that was called keeps running (process has no wait but the
\* one on the job), and every job the service accepted completes or fails
FairSpec ==
    /\ InitWith({s \in Settings : s.PREBUILT_MODEL = DeployedModel})
    /\ [][FairNext]_vars
    /\ \A i \in Invs : WF_vars(Step(i))
    /\ \A j \in 1..NumInv : WF_vars(Completes(j))

\* one invocation, every request shape and every service result in the bounds
SoloNext ==
    \/ \E req \in RequestsOver(DocstringKeys) : Call(1, req)
    \/ CheckCredentials(1)
    \/ \E rej \in SubmitOutcomes : DispatchBytes(1, rej)
    \/ \E rej \in SubmitOutcomes : DispatchUrl(1, rej)
    \/ DispatchNone(1)
    \/ \E j \in 1..Len(jobs) : ServiceCompletes(j, TRUE, RichResults)
    \/ \E j \in 1..Len(jobs) : ServiceCompletes(j, FALSE, ServiceErrors)
    \/ AwaitResult(1)
    \/ Flatten(1)

SoloSpec == SoloInit /\ [][SoloNext]_vars

\* ------------------------------------------------------------ properties
Done(i) == pc[i] = "done"

\* the two shapes of the returned dict
IsSuccess(d) ==
    /\ DOMAIN d = {"result", "metadata"}
    /\ d.result.type = "str"

IsFailure(d) ==
    /\ DOMAIN d = {"error", "result"}
    /\ d.error.type = "str"
    /\ d.result = PyNone

\* the operations the service received from invocation i, in order
JobsOf(i) == SelectSeq(jobs, LAMBDA job : job.caller = i)

CredentialsConfigured ==
    /\ settings.AZURE_FORMRECOGNIZER_ENDPOINT \notin {PyNone, PyStr("")}
    /\ settings.AZURE_FORMRECOGNIZER_KEY \notin {PyNone, PyStr("")}

NoInput(i) ==
    /\ "file_bytes" \notin DOMAIN input_data[i]
    /\ "file_url" \notin DOMAIN input_data[i]

\* C1: process never raises: whatever the request, the configuration and the
\* service do (an error at submission, while the result is awaited, or a
\* result that cannot be flattened), the invocation ends by returning a dict
\* that is exactly one of success {result: str, metadata} and failure
\* {error: str, result: None}.
C1_AlwaysWellFormedResult ==
    \A i \in Invs :
        /\ pc[i] # "raised"
        /\ Done(i) => (IsSuccess(ret[i]) /\ ~IsFailure(ret[i]))
                      \/ (IsFailure(ret[i]) /\ ~IsSuccess(ret[i]))
        /\ ~Done(i) => ret[i] = NotReturned

\* C1 witness: a result that cannot be flattened ends in a returned dict
C1_Witness ==
    /\ Done(1)
    /\ ret[1] = ExceptReturn(NotIterableError)
    /\ jobs[poller[1]].status = "succeeded"

C3_BytesTakePrecedence ==
    \A i \in Invs :
        (CredentialsConfigured /\ pc[i] \in {"await", "flatten", "done", "raised"}) =>
            /\ "file_bytes" \in DOMAIN input_data[i] =>
                   /\ Len(JobsOf(i)) = 1
                   /\ JobsOf(i)[1].op = "begin_analyze_document"
                   /\ JobsOf(i)[1].document = input_data[i]["file_bytes"]
            /\ ("file_bytes" \notin DOMAIN input_data[i]
                  /\ "file_url" \in DOMAIN input_data[i]) =>
                   /\ Len(JobsOf(i)) = 1
                   /\ JobsOf(i)[1].op = "begin_analyze_document_from_url"
                   /\ JobsOf(i)[1].document = input_data[i]["file_url"]

C3_Witness ==
    /\ Done(1)
    /\ {"file_bytes", "file_url"} \subseteq DOMAIN input_data[1]
    /\ Len(jobs) = 1
    /\ jobs[1].op = "begin_analyze_document"
    /\ IsSuccess(ret[1])

\* C4: when the endpoint or the key is missing (None) or empty, every call
\* returns {error: non-empty string, result: None}, no remote operation is
\* invoked, and all the calls return the same error.
C4_MissingCredentials ==
    ~CredentialsConfigured =>
        /\ jobs = <<>>
        /\ \A i \in Invs : Done(i) =>
               /\ IsFailure(ret[i])
               /\ ret[i].error.val # ""
               /\ \A k \in Invs : Done(k) => ret[k] = ret[i]

\* C4 witness: two calls with different requests under an empty key
C4_Witness ==
    /\ settings.AZURE_FORMRECOGNIZER_KEY = PyStr("")
    /\ settings.AZURE_FORMRECOGNIZER_ENDPOINT # PyNone
    /\ Done(1) /\ Done(2)
    /\ input_data[1] # input_data[2]
    /\ "file_bytes" \in DOMAIN input_data[1]

\* the text the specification asks for: for each page in order, the marker
\* "page number N" and then the page's lines, each followed by a newline
RECURSIVE JoinLines(_)
JoinLines(lines) ==
    IF lines = <<>> THEN ""
    ELSE Head(lines).content \o "\n" \o JoinLines(Tail(lines))

RECURSIVE ExpectedTextFrom(_, _)
ExpectedTextFrom(pages, n) ==
    IF pages = <<>> THEN ""
    ELSE "page number " \o ToString(n) \o "\n" \o JoinLines(Head(pages).lines)
         \o ExpectedTextFrom(Tail(pages), n + 1)

\* the result the service gave to invocation i's job
ServiceResult(i) == jobs[poller[i]].outcome

Succeeded(i) == Done(i) /\ "metadata" \in DOMAIN ret[i]

\* C5: on success the text is, for the pages in service order numbered from
\* 1, "page number i\n" followed by each line of the page and "\n"; nothing is
\* dropped, duplicated, reordered or altered, and zero pages give "".
C5_TextIsPagesInOrder ==
    \A i \in Invs :
        /\ Succeeded(i) =>
               /\ ret[i].result = PyStr(ExpectedTextFrom(ServiceResult(i).pages.items, 1))
               /\ ServiceResult(i).pages.items = <<>> => ret[i].result = PyStr("")
               /\ ServiceResult(i).pages.items = ExamplePages =>
                      ret[i].result = PyStr("page number 1\nHello\nWorld\npage number 2\nFoo\n")
        /\ (Done(i) /\ poller[i] # 0 /\ jobs[poller[i]].status = "succeeded"
              /\ ServiceResult(i).pages # PyNone /\ ServiceResult(i).tables # PyNone)
             => Succeeded(i)

\* C5 witness: two pages, the first with a repeated line
C5_Witness ==
    /\ Succeeded(1)
    /\ ret[1].result = PyStr("page number 1\n x \n x \npage number 2\nHello\n x \n")

\* the tables the specification asks for
ExpectedTables(tables) ==
    [t \in 1..Len(tables) |->
        [c \in 1..Len(tables[t].cells) |->
            [row |-> tables[t].cells[c].row_index,
             column |-> tables[t].cells[c].column_index,
             content |-> tables[t].cells[c].content]]]

\* C6: on success metadata.tables_data lists, per table in service order, the
\* {row, column, content} records of its cells in service order, unchanged;
\* metadata.tables and metadata.pages count the tables and the pages, and
\* metadata.model is the model identifier passed to the remote operation.
C6_MetadataIsTablesInOrder ==
    \A i \in Invs :
        Succeeded(i) =>
            LET res == ServiceResult(i)
                md == ret[i].metadata
            IN  /\ DOMAIN md = {"pages", "tables", "tables_data", "model"}
                /\ md.tables_data = ExpectedTables(res.tables.items)
                /\ md.tables = Len(res.tables.items)
                /\ md.pages = Len(res.pages.items)
                /\ md.model = jobs[poller[i]].model_id
                /\ md.model = settings.PREBUILT_MODEL

\* C6 witness: two tables, the first holding the same cell twice and then a
\* cell of an earlier row order (no sorting, duplicates kept)
C6_Witness ==
    /\ Succeeded(1)
    /\ ret[1].metadata.tables = 2
    /\ ret[1].metadata.tables_data[1] =
           <<[row |-> 1, column |-> 0, content |-> "C"],
             [row |-> 1, column |-> 0, content |-> "C"]>>
    /\ ret[1].metadata.tables_data[2] =
           <<[row |-> 1, column |-> 0, content |-> "C"],
             [row |-> 0, column |-> 0, content |-> "A"]>>
    /\ ret[1].metadata.model = "prebuilt-layout"

\* C7: when the service raises an error, at submission or while the result is
\* awaited, process returns {error: m, result: None} with m the error's
\* message unchanged, whatever the kind of the error.
C7_ServiceErrorIsReturned ==
    \A i \in Invs :
        \A n \in 1..Len(JobsOf(i)) :
            LET job == JobsOf(i)[n]
            IN  (Done(i) /\ job.status \in {"rejected", "failed"}) =>
                    /\ ret[i] = [error |-> PyStr(job.outcome.args[1]), result |-> PyNone]
                    /\ job.outcome \in ServiceErrors

C7_Witness ==
    /\ Done(1)
    /\ poller[1] # 0
    /\ jobs[poller[1]].status = "failed"
    /\ jobs[poller[1]].outcome.type = "ServiceRequestError"
    /\ ret[1].error = PyStr("connection timed out")

C7_WitnessAtSubmission ==
    /\ Done(1)
    /\ Len(jobs) = 1
    /\ jobs[1].status = "rejected"
    /\ ret[1].error = PyStr("(401) Access denied")

\* the state names of the specification's state machine
Phase(i) ==
    CASE pc[i] = "idle" -> "NOT_CALLED"
      [] pc[i] = "start" -> "START"
      [] pc[i] = "dispatch" -> "RESOLVING"
      [] pc[i] = "await" -> "INVOKING"
      [] pc[i] = "flatten" -> "FLATTENING"
      [] pc[i] = "done" -> IF "error" \in DOMAIN ret[i] THEN "FAILED" ELSE "SUCCESS"
      [] OTHER -> "RAISED"

PathEdges ==
    {<<"NOT_CALLED", "START">>, <<"START", "RESOLVING">>, <<"RESOLVING", "INVOKING">>,
     <<"INVOKING", "FLATTENING">>, <<"FLATTENING", "SUCCESS">>}
    \cup {<<p, "FAILED">> : p \in {"START", "RESOLVING", "INVOKING", "FLATTENING"}}

\* C8 as stated: a request with neither file_bytes nor file_url fails with the
\* no-input error whatever endpoint and key are configured, also when they are
\* missing (input resolution before the credentials check).
C8_NoInputErrorWhateverCredentials ==
    \A i \in Invs :
        (Done(i) /\ NoInput(i)) => ret[i] = ExceptReturn(NoInputError)

\* C8 amended: an invocation goes START, RESOLVING, INVOKING, FLATTENING,
\* SUCCESS and leaves this path only to FAILED; the credentials are checked
\* first, in START, before the input is resolved: a request with neither
\* file_bytes nor file_url fails in RESOLVING with the no-input error when
\* endpoint and key are both configured, and in START with the credentials
\* error when one is missing; in both cases no remote operation is invoked.
C8_CredentialsCheckedBeforeInput ==
    [][\A i \in Invs :
          /\ Phase(i)' # Phase(i) => <<Phase(i), Phase(i)'>> \in PathEdges
          /\ (NoInput(i)' /\ Done(i)' /\ ~Done(i)) =>
                 /\ JobsOf(i)' = <<>>
                 /\ IF CredentialsConfigured
                    THEN /\ Phase(i) = "RESOLVING"
                         /\ ret'[i] = ExceptReturn(NoInputError)
                    ELSE /\ Phase(i) = "START"
                         /\ ret'[i] = ExceptReturn(CredentialsError)
      ]_vars

\* C8 witness: no input and no key: the call has failed with the credentials
\* error
C8_Witness ==
    /\ Done(1)
    /\ NoInput(1)
    /\ settings.AZURE_FORMRECOGNIZER_KEY = PyNone
    /\ ret[1] = ExceptReturn(CredentialsError)

HasFailedJob(i) ==
    \E n \in 1..Len(JobsOf(i)) : JobsOf(i)[n].status \in {"rejected", "failed"}

\* C9: an invocation submits at most one remote operation and awaits it at
\* most once; after a failed attempt it submits nothing more and its next step
\* is the failure return; a returned invocation stays returned; and, every
\* accepted job completing or failing, every invocation that was called
\* eventually returns.
C9_SingleAttemptAndTermination ==
    /\ [](\A i \in Invs : Len(JobsOf(i)) <= 1)
    /\ [][\A i \in Invs :
             /\ pc[i] \in {"flatten", "done"} => pc'[i] \notin {"dispatch", "await"}
             /\ HasFailedJob(i) => JobsOf(i)' = JobsOf(i)
             /\ (HasFailedJob(i) /\ pc'[i] # pc[i]) =>
                    Done(i)' /\ ret'[i] = ExceptReturn(JobsOf(i)[1].outcome)
             /\ Done(i) => Done(i)' /\ ret'[i] = ret[i]
         ]_vars
    /\ \A i \in Invs : [](pc[i] # "idle" => <>Done(i))

\* C9 witness: one invocation returned the error of its failed job, the
\* other one succeeded
C9_Witness ==
    /\ Done(1)
    /\ Len(JobsOf(1)) = 1
    /\ JobsOf(1)[1].status = "failed"
    /\ Succeeded(2)

\* what process returns for a request, a configuration and the service's
\* answers to the operation it submitted, when it runs alone
SoloReturn(req, cfg, answers) ==
    IF cfg.AZURE_FORMRECOGNIZER_ENDPOINT \in {PyNone, PyStr("")}
         \/ cfg.AZURE_FORMRECOGNIZER_KEY \in {PyNone, PyStr("")}
    THEN ExceptReturn(CredentialsError)
    ELSE IF "file_bytes" \notin DOMAIN req /\ "file_url" \notin DOMAIN req
    THEN ExceptReturn(NoInputError)
    ELSE IF answers = <<>> \/ answers[1].status = "running"
    THEN NotReturned
    ELSE IF answers[1].status \in {"rejected", "failed"}
    THEN ExceptReturn(answers[1].outcome)
    ELSE IF answers[1].outcome.pages = PyNone \/ answers[1].outcome.tables = PyNone
    THEN ExceptReturn(NotIterableError)
    ELSE SuccessReturn(ExtractText(answers[1].outcome.pages.items), answers[1].outcome,
                       ExtractTables(answers[1].outcome.tables.items), cfg.PREBUILT_MODEL)

\* the locals of invocation i
Locals(i) == <<pc[i], input_data[i], client[i], poller[i], result[i], ret[i]>>

\* C10: under every interleaving, an invocation returns what it returns when
\* run alone on its request, the configuration and the service's answer to its
\* own job; a step changes the locals of one invocation only, reads the result
\* of that invocation's own job, and leaves the other invocations' jobs and
\* the configuration as they are.
C10_Isolation ==
    [][/\ settings' = settings
       /\ \E i \in Invs :
             \A k \in Invs \ {i} :
                 /\ Locals(k)' = Locals(k)
                 /\ Locals(i)' # Locals(i) => JobsOf(k)' = JobsOf(k)
       /\ \A i \in Invs :
             /\ Done(i)' => ret'[i] = SoloReturn(input_data[i], settings, JobsOf(i)')
             /\ pc'[i] = "flatten" =>
                    /\ jobs'[poller'[i]].caller = i
                    /\ result'[i] = jobs'[poller'[i]].outcome
      ]_vars

\* C10 witness: two invocations whose jobs were submitted in the other order,
\* one returned the example document and the other a service error
C10_Witness ==
    /\ Len(jobs) = 2
    /\ jobs[1].caller = 2
    /\ jobs[2].caller = 1
    /\ Succeeded(1)
    /\ ret[1].metadata.pages = 2
    /\ Done(2)
    /\ ret[2] = [error |-> PyStr("connection timed out"), result |-> PyNone]

=============================================================================
